---- MODULE Spec2Model ----
(***************************************************************************)
(* A model of the algorithm exercises of the code studio collection:       *)
(*   - search                      (find_target_in_rotated_sorted_array)   *)
(*   - findTargetInMountainArray   (findPeakIndex + two lower_bound runs)  *)
(*   - Solution::isValidBST        (iterative in-order validation)         *)
(*   - Solution::sortedArrayToBST  (range-bounded pre-order rebuild)       *)
(* Each exercise is a program of its own; every specification below runs   *)
(* one of them from an input drawn from a bounded set.  Array indices are  *)
(* 0-based as in the source; a vector is a sequence read through At.       *)
(***************************************************************************)
EXTENDS Integers, Sequences, FiniteSets, TLC

\* ------------------------------------------------------------------ bounds
\* Longest input vector (search, mountain search, pre-order input).
MaxLen == 4
\* Most nodes of a hand-built tree handed to isValidBST.
MaxNodes == 3
\* The inputs hold the values 1..MaxVal and the two extreme values of int.
MaxVal == 3

\* std::numeric_limits<int>::lowest()
lowest == -2147483647 - 1
\* std::numeric_limits<int>::max()
max == 2147483647

\* The values of the element type T (int in the programs) the inputs are
\* drawn from.
T == {lowest, max} \cup 1..MaxVal

\* The not-found sentinel of both searches.
NotFound == -1

\* Marks "no value" (a null pointer, a function that has not returned).
NULL == "null"

\* ------------------------------------------------------------------ vectors
RECURSIVE SeqsOfLen(_)
SeqsOfLen(n) ==
    IF n = 0 THEN {<<>>}
    ELSE {Append(s, v) : s \in SeqsOfLen(n - 1), v \in T}

\* Every std::vector<T> of at most MaxLen elements.
Vectors == UNION {SeqsOfLen(n) : n \in 0..MaxLen}

\* v.size()
size(v) == Len(v)

\* The indices a vector can be read at.
Indices(v) == 0..(size(v) - 1)

\* v[i], 0-based.  A read outside the vector is undefined behaviour: every
\* action that makes one moves to a pc ending in "_ub", which stands for any
\* outcome, and the value given here is never used by a later step.
At(v, i) == IF i \in Indices(v) THEN v[i + 1] ELSE lowest

\* int right = v.size() - 1: the unsigned difference converted to int; for
\* the empty vector SIZE_MAX converts to -1.
\* (faulty variant: the - 1 forgotten)
LastIndex_size(v) == size(v)
LastIndex(v) == size(v) - 1

\* ------------------------------------------------------------------ state
VARIABLES
    pc,       \* position of the running program
    nums,     \* search / sortedArrayToBST: the input vector
    arr,      \* findTargetInMountainArray: the input vector
    target,   \* the value searched for
    left,     \* search / findPeakIndex: int left
    right,    \* search / findPeakIndex: int right
    peakIndex,\* findTargetInMountainArray: int peakIndex
    result,   \* the value the program's top-level call returned
    reads,    \* the vector indices read so far
    iters,    \* loop iterations executed so far
    calls,    \* the functions entered so far, in order
    root,     \* isValidBST: the tree handed in
    stack,    \* isValidBST: std::stack<TreeNode<T>*>
    curr,     \* isValidBST: TreeNode<T>* curr
    prev,     \* isValidBST: TreeNode<T>* prev
    visited,  \* isValidBST: the nodes popped so far, in order
    index,    \* build: int& index, the cursor
    frames,   \* build: the call stack of active build calls
    ret,      \* build: the subtree the last finished call returned
    worker,   \* jthread_example: the position of each thread_worker call
    out       \* jthread_example: what was inserted into std::cout, in order

vars == <<pc, nums, arr, target, left, right, peakIndex, result, reads, iters,
          calls, root, stack, curr, prev, visited, index, frames, ret,
          worker, out>>

arrayVars == <<nums, arr, target, left, right, peakIndex, reads, iters, calls>>
treeVars == <<root, stack, curr, prev, visited>>
buildVars == <<index, frames, ret>>
threadVars == <<worker, out>>

\* The values of the variables a program does not use.
IdleArray ==
    /\ arr = <<>> /\ target = lowest /\ left = 0 /\ right = 0
    /\ peakIndex = 0 /\ reads = {} /\ iters = 0 /\ calls = <<>>
IdleTree ==
    /\ root = <<>> /\ stack = <<>> /\ curr = <<"nullptr">>
    /\ prev = <<"nullptr">> /\ visited = <<>>
IdleBuild ==
    /\ index = 0 /\ frames = <<>> /\ ret = <<>>
IdleThreads ==
    /\ worker = <<>> /\ out = <<>>

\* ------------------------------------------------- search (rotated array)
\* int mid = left + (right - left) / 2;
\* (faulty variant: mid = left)
Mid_left(l, r) == l
Mid(l, r) == l + (r - l) \div 2

\* nums[left] <= nums[mid]: the left half is the sorted one.
\* (faulty variant: < for <=)
LeftHalfSorted_strict(ns, l, m) == At(ns, l) < At(ns, m)
LeftHalfSorted(ns, l, m) == At(ns, l) <= At(ns, m)

\* target >= nums[left] && target < nums[mid]
\* (faulty variant: > for >=)
InLeftHalf_open(ns, t, l, m) == t > At(ns, l) /\ t < At(ns, m)
InLeftHalf(ns, t, l, m) == t >= At(ns, l) /\ t < At(ns, m)

\* target > nums[mid] && target <= nums[right]
InRightHalf(ns, t, m, r) == t > At(ns, m) /\ t <= At(ns, r)

\* The indices one iteration of the loop reads (&& short-circuits).
searchReads(ns, t, l, r) ==
    LET m == Mid(l, r) IN
    IF m \notin Indices(ns) \/ At(ns, m) = t THEN {m}
    ELSE IF l \notin Indices(ns) \/ LeftHalfSorted(ns, l, m)
         THEN {m, l}
         ELSE {m, l} \cup (IF t > At(ns, m) THEN {r} ELSE {})

\* One iteration of while (left <= right): the new <<left, right>> and the
\* value returned from inside the loop (found: return mid was taken).
searchBody(ns, t, l, r) ==
    LET m == Mid(l, r) IN
    IF At(ns, m) = t THEN [left |-> l, right |-> r, found |-> TRUE, ret |-> m]
    ELSE IF LeftHalfSorted(ns, l, m)
         THEN IF InLeftHalf(ns, t, l, m)
              THEN [left |-> l, right |-> m - 1, found |-> FALSE, ret |-> NotFound]
              ELSE [left |-> m + 1, right |-> r, found |-> FALSE, ret |-> NotFound]
         ELSE IF InRightHalf(ns, t, m, r)
              THEN [left |-> m + 1, right |-> r, found |-> FALSE, ret |-> NotFound]
              ELSE [left |-> l, right |-> m - 1, found |-> FALSE, ret |-> NotFound]

RECURSIVE searchLoop(_, _, _, _)
searchLoop(ns, t, l, r) ==
    IF l <= r
    THEN LET b == searchBody(ns, t, l, r) IN
         IF b.found THEN b.ret ELSE searchLoop(ns, t, b.left, b.right)
    ELSE NotFound

\* int search(const std::vector<int>& nums, int target)
search(ns, t) == searchLoop(ns, t, 0, LastIndex(ns))

InitSearch ==
    /\ pc = "search"
    /\ nums \in Vectors
    /\ target \in T
    /\ arr = <<>> /\ left = 0 /\ right = 0 /\ peakIndex = 0
    /\ reads = {} /\ iters = 0 /\ calls = <<>>
    /\ result = NULL
    /\ IdleTree /\ IdleBuild
    /\ IdleThreads

\* Lines 6-7: int left = 0; int right = nums.size() - 1;
SearchEnter ==
    /\ pc = "search"
    /\ left' = 0
    /\ right' = LastIndex(nums)
    /\ calls' = Append(calls, "search")
    /\ pc' = "search_loop"
    /\ UNCHANGED <<nums, arr, target, peakIndex, result, reads, iters>>
    /\ UNCHANGED <<treeVars, buildVars>>
    /\ UNCHANGED threadVars

\* Lines 9-30: one iteration of the loop, or the return from inside it.
SearchIterate ==
    /\ pc = "search_loop"
    /\ left <= right
    /\ reads' = reads \cup searchReads(nums, target, left, right)
    /\ iters' = iters + 1
    /\ IF searchReads(nums, target, left, right) \subseteq Indices(nums)
       THEN LET b == searchBody(nums, target, left, right) IN
            /\ left' = b.left
            /\ right' = b.right
            /\ IF b.found
               THEN pc' = "search_done" /\ result' = b.ret
               ELSE pc' = "search_loop" /\ result' = result
       ELSE pc' = "search_ub" /\ UNCHANGED <<left, right, result>>
    /\ UNCHANGED <<nums, arr, target, peakIndex, calls>>
    /\ UNCHANGED <<treeVars, buildVars>>
    /\ UNCHANGED threadVars

\* Line 31: return -1;
SearchNotFound ==
    /\ pc = "search_loop"
    /\ ~(left <= right)
    /\ result' = NotFound
    /\ pc' = "search_done"
    /\ UNCHANGED <<nums, arr, target, left, right, peakIndex, reads, iters, calls>>
    /\ UNCHANGED <<treeVars, buildVars>>
    /\ UNCHANGED threadVars

NextSearch == SearchEnter \/ SearchIterate \/ SearchNotFound

SpecSearch == InitSearch /\ [][NextSearch]_vars

\* ------------------------------------- findTargetInMountainArray (cpp17)
\* arr[mid] < arr[mid + 1]: mid is on the ascending part.
OnAscendingPart(a, m) == At(a, m) < At(a, m + 1)

\* One iteration of while (left < right) in findPeakIndex.
\* (faulty variant: left = mid)
findPeakBody_stay(a, l, r) ==
    LET m == Mid(l, r) IN
    IF OnAscendingPart(a, m)
    THEN [left |-> m, right |-> r]
    ELSE [left |-> l, right |-> m]
\* (faulty variant: right = mid - 1)
findPeakBody_skip(a, l, r) ==
    LET m == Mid(l, r) IN
    IF OnAscendingPart(a, m)
    THEN [left |-> m + 1, right |-> r]
    ELSE [left |-> l, right |-> m - 1]
findPeakBody(a, l, r) ==
    LET m == Mid(l, r) IN
    IF OnAscendingPart(a, m)
    THEN [left |-> m + 1, right |-> r]
    ELSE [left |-> l, right |-> m]

\* The indices one iteration reads: arr[mid] and arr[mid + 1].
findPeakReads(l, r) == {Mid(l, r), Mid(l, r) + 1}

RECURSIVE findPeakLoop(_, _, _)
findPeakLoop(a, l, r) ==
    IF l < r
    THEN LET b == findPeakBody(a, l, r) IN findPeakLoop(a, b.left, b.right)
    ELSE l

\* int findPeakIndex(const std::vector<int>& arr)
findPeakIndex(a) == findPeakLoop(a, 0, LastIndex(a))

\* The comparator of a lower_bound run: operator< by default,
\* std::greater<int>() for the descending run.
\* (less_eq: faulty variant of less)
less_eq(x, t) == x <= t
less(x, t) == x < t
\* (greater_eq: faulty variant of greater)
greater_eq(x, t) == x >= t
greater(x, t) == x > t
comp(desc, x, t) == IF desc THEN greater(x, t) ELSE less(x, t)

\* std::lower_bound(arr.begin() + first, arr.begin() + first + len, t, comp):
\* the halving loop of the library; the iterator it returns, as an index.
RECURSIVE lowerBoundLoop(_, _, _, _, _)
lowerBoundLoop(a, t, first, len, desc) ==
    IF len > 0
    THEN LET half == len \div 2
             middle == first + half
         IN  IF comp(desc, At(a, middle), t)
             THEN lowerBoundLoop(a, t, middle + 1, len - half - 1, desc)
             ELSE lowerBoundLoop(a, t, first, half, desc)
    ELSE first

\* The indices that run dereferences.
RECURSIVE lowerBoundReads(_, _, _, _, _)
lowerBoundReads(a, t, first, len, desc) ==
    IF len > 0
    THEN LET half == len \div 2
             middle == first + half
         IN  {middle} \cup
             (IF comp(desc, At(a, middle), t)
              THEN lowerBoundReads(a, t, middle + 1, len - half - 1, desc)
              ELSE lowerBoundReads(a, t, first, half, desc))
    ELSE {}

lower_bound(a, first, last, t, desc) ==
    lowerBoundLoop(a, t, first, last - first, desc)

\* (faulty variant: the bound position is returned without *it == target)
matchAt_bound(a, t, it, r) ==
    IF it # r + 1 THEN it ELSE NotFound
\* if (it != arr.begin() + right + 1 && *it == target) return distance; else -1
matchAt(a, t, it, r) ==
    IF it # r + 1 /\ At(a, it) = t THEN it ELSE NotFound

\* int binarySearchAscending(arr, target, left, right)
binarySearchAscending(a, t, l, r) ==
    matchAt(a, t, lower_bound(a, l, r + 1, t, FALSE), r)

\* int binarySearchDescending(arr, target, left, right)
binarySearchDescending(a, t, l, r) ==
    matchAt(a, t, lower_bound(a, l, r + 1, t, TRUE), r)

\* The indices a binarySearch call reads: those of lower_bound, and *it.
binarySearchReads(a, t, l, r, desc) ==
    LET it == lower_bound(a, l, r + 1, t, desc) IN
    lowerBoundReads(a, t, l, r + 1 - l, desc)
        \cup (IF it # r + 1 THEN {it} ELSE {})

\* int findTargetInMountainArray(const std::vector<int>& arr, int target)
findTargetInMountainArray(a, t) ==
    IF size(a) = 0 THEN NotFound
    ELSE LET p == findPeakIndex(a)
             res == binarySearchAscending(a, t, 0, p)
         IN  IF res # NotFound THEN res
             ELSE binarySearchDescending(a, t, p + 1, LastIndex(a))

InitMountain ==
    /\ pc = "mountain"
    /\ arr \in Vectors
    /\ target \in T
    /\ nums = <<>> /\ left = 0 /\ right = 0 /\ peakIndex = 0
    /\ reads = {} /\ iters = 0 /\ calls = <<>>
    /\ result = NULL
    /\ IdleTree /\ IdleBuild
    /\ IdleThreads

\* Lines 288-290: if (arr.empty()) return -1;
FindTargetEmpty ==
    /\ pc = "mountain"
    /\ size(arr) = 0
    /\ calls' = Append(calls, "findTargetInMountainArray")
    /\ result' = NotFound
    /\ pc' = "mountain_done"
    /\ UNCHANGED <<nums, arr, target, left, right, peakIndex, reads, iters>>
    /\ UNCHANGED <<treeVars, buildVars>>
    /\ UNCHANGED threadVars

\* Line 292 and lines 246-247: the call of findPeakIndex and its locals.
FindPeakEnter ==
    /\ pc = "mountain"
    /\ size(arr) # 0
    /\ calls' = calls \o <<"findTargetInMountainArray", "findPeakIndex">>
    /\ left' = 0
    /\ right' = LastIndex(arr)
    /\ pc' = "peak_loop"
    /\ UNCHANGED <<nums, arr, target, peakIndex, result, reads, iters>>
    /\ UNCHANGED <<treeVars, buildVars>>
    /\ UNCHANGED threadVars

\* Lines 249-259: one iteration of the loop of findPeakIndex.
FindPeakIterate ==
    /\ pc = "peak_loop"
    /\ left < right
    /\ reads' = reads \cup findPeakReads(left, right)
    /\ iters' = iters + 1
    /\ IF findPeakReads(left, right) \subseteq Indices(arr)
       THEN LET b == findPeakBody(arr, left, right) IN
            /\ left' = b.left
            /\ right' = b.right
            /\ pc' = pc
       ELSE pc' = "mountain_ub" /\ UNCHANGED <<left, right>>
    /\ UNCHANGED <<nums, arr, target, peakIndex, result, calls>>
    /\ UNCHANGED <<treeVars, buildVars>>
    /\ UNCHANGED threadVars

\* Line 260 and line 292: return left; int peakIndex = findPeakIndex(arr);
FindPeakReturn ==
    /\ pc = "peak_loop"
    /\ ~(left < right)
    /\ peakIndex' = left
    /\ pc' = "ascending"
    /\ UNCHANGED <<nums, arr, target, left, right, result, reads, iters, calls>>
    /\ UNCHANGED <<treeVars, buildVars>>
    /\ UNCHANGED threadVars

\* Lines 295-298: the ascending search of [0, peakIndex] and its return.
SearchAscendingPart ==
    /\ pc = "ascending"
    /\ calls' = Append(calls, "binarySearchAscending")
    /\ reads' = reads \cup binarySearchReads(arr, target, 0, peakIndex, FALSE)
    /\ LET res == binarySearchAscending(arr, target, 0, peakIndex) IN
        IF ~(binarySearchReads(arr, target, 0, peakIndex, FALSE)
                \subseteq Indices(arr))
        THEN result' = result /\ pc' = "mountain_ub"
        ELSE IF res # NotFound
        THEN result' = res /\ pc' = "mountain_done"
        ELSE result' = result /\ pc' = "descending"
    /\ UNCHANGED <<nums, arr, target, left, right, peakIndex, iters>>
    /\ UNCHANGED <<treeVars, buildVars>>
    /\ UNCHANGED threadVars

\* Line 301: the descending search of [peakIndex + 1, size - 1].
SearchDescendingPart ==
    /\ pc = "descending"
    /\ calls' = Append(calls, "binarySearchDescending")
    /\ reads' = reads \cup
           binarySearchReads(arr, target, peakIndex + 1, LastIndex(arr), TRUE)
    /\ IF binarySearchReads(arr, target, peakIndex + 1, LastIndex(arr), TRUE)
            \subseteq Indices(arr)
       THEN /\ result' = binarySearchDescending(arr, target, peakIndex + 1,
                                                LastIndex(arr))
            /\ pc' = "mountain_done"
       ELSE result' = result /\ pc' = "mountain_ub"
    /\ UNCHANGED <<nums, arr, target, left, right, peakIndex, iters>>
    /\ UNCHANGED <<treeVars, buildVars>>
    /\ UNCHANGED threadVars

NextMountain ==
    \/ FindTargetEmpty \/ FindPeakEnter \/ FindPeakIterate \/ FindPeakReturn
    \/ SearchAscendingPart \/ SearchDescendingPart

SpecMountain == InitMountain /\ [][NextMountain]_vars

\* ------------------------------------------------------------ TreeNode<T>
\* A std::unique_ptr<TreeNode<T>> is the tree it owns: Nil for nullptr, and
\* <<val, left, right>> for a node owning its two subtrees.
Nil == <<>>
Node(v, l, r) == <<v, l, r>>
val(t) == t[1]
leftOf(t) == t[2]
rightOf(t) == t[3]

RECURSIVE TreesOfSize(_)
TreesOfSize(n) ==
    IF n = 0 THEN {Nil}
    ELSE UNION {{Node(v, l, r) : v \in T, l \in TreesOfSize(k),
                                 r \in TreesOfSize(n - 1 - k)} : k \in 0..(n - 1)}

\* Every tree of at most MaxNodes nodes.
Trees == UNION {TreesOfSize(n) : n \in 0..MaxNodes}

\* A raw TreeNode<T>* into the tree handed to isValidBST is the path from
\* the root to the node ("L" = left, "R" = right); nullptr is no path.
nullptr == <<"nullptr">>

RECURSIVE NodeAt(_, _)
\* The node (with its subtrees) a non-null pointer points to.
NodeAt(t, p) ==
    IF p = <<>> THEN t
    ELSE NodeAt(IF Head(p) = "L" THEN leftOf(t) ELSE rightOf(t), Tail(p))

\* unique_ptr::get() of the root, of p->left and of p->right.
get(t) == IF t = Nil THEN nullptr ELSE <<>>
getLeft(t, p) ==
    IF leftOf(NodeAt(t, p)) = Nil THEN nullptr ELSE Append(p, "L")
\* (faulty variant of getRight: curr = curr->left.get() after the visit)
getRight_left(t, p) == getLeft(t, p)
getRight(t, p) ==
    IF rightOf(NodeAt(t, p)) = Nil THEN nullptr ELSE Append(p, "R")

\* ------------------------------------------------- Solution::isValidBST
\* curr->val <= prev->val: the in-order sequence does not increase here.
\* (faulty variant: < for <=)
NotIncreasing_strict(c, p) == c < p
NotIncreasing(c, p) == c <= p

\* (faulty variant: a node is compared with its own parent or child only)
outOfOrder_parent(t, c, p) ==
    /\ p # nullptr
    /\ (c = Append(p, "R") \/ p = Append(c, "L"))
    /\ NotIncreasing(val(NodeAt(t, c)), val(NodeAt(t, p)))
\* prev != nullptr && curr->val <= prev->val, curr being the popped node.
outOfOrder(t, c, p) ==
    p # nullptr /\ NotIncreasing(val(NodeAt(t, c)), val(NodeAt(t, p)))

\* Line 37: curr != nullptr || !stack.empty()
\* (faulty variant: the ! forgotten)
outerCond_empty(c, stk) == c # nullptr \/ stk = <<>>
outerCond(c, stk) == c # nullptr \/ stk # <<>>

RECURSIVE pushLefts(_, _, _)
\* Lines 38-41 run to the end: the stack after curr and the chain of left
\* children below it were pushed.
pushLefts(t, stk, c) ==
    IF c # nullptr THEN pushLefts(t, Append(stk, c), getLeft(t, c)) ELSE stk

RECURSIVE isValidLoop(_, _, _, _)
\* Lines 37-54 from a state <<stack, curr, prev>> of the traversal.  (top()
\* of an empty stack is undefined behaviour; the loop condition rules it
\* out, and the stepwise run moves to "validate_ub" there.)
isValidLoop(t, stk, c, p) ==
    IF outerCond(c, stk)
    THEN LET pushed == pushLefts(t, stk, c) IN
         IF pushed = <<>> THEN FALSE
         ELSE LET top == pushed[Len(pushed)] IN
              IF outOfOrder(t, top, p) THEN FALSE
              ELSE isValidLoop(t, SubSeq(pushed, 1, Len(pushed) - 1),
                               getRight(t, top), top)
    ELSE TRUE

\* bool isValidBST(const std::unique_ptr<TreeNode<T>>& root)
isValidBST(t) == isValidLoop(t, <<>>, get(t), nullptr)

InitValidate ==
    /\ pc = "validate"
    /\ root \in Trees
    /\ stack = <<>> /\ curr = nullptr /\ prev = nullptr /\ visited = <<>>
    /\ result = NULL
    /\ nums = <<>> /\ IdleArray /\ IdleBuild
    /\ IdleThreads

\* Lines 33-35: the empty stack, curr = root.get(), prev = nullptr.
ValidateEnter ==
    /\ pc = "validate"
    /\ stack' = <<>>
    /\ curr' = get(root)
    /\ prev' = nullptr
    /\ pc' = "validate_outer"
    /\ UNCHANGED <<root, visited, result, arrayVars, buildVars>>
    /\ UNCHANGED threadVars

\* Line 37: the outer loop condition holds; enter the body.
OuterLoopEnter ==
    /\ pc = "validate_outer"
    /\ outerCond(curr, stack)
    /\ pc' = "validate_inner"
    /\ UNCHANGED <<root, stack, curr, prev, visited, result>>
    /\ UNCHANGED <<arrayVars, buildVars>>
    /\ UNCHANGED threadVars

\* Lines 37 and 54: the outer loop ends; return true.
ValidateReturnTrue ==
    /\ pc = "validate_outer"
    /\ ~outerCond(curr, stack)
    /\ result' = TRUE
    /\ pc' = "validate_done"
    /\ UNCHANGED <<root, stack, curr, prev, visited, arrayVars, buildVars>>
    /\ UNCHANGED threadVars

\* (faulty variant: curr = curr->left.release(), the left link of the node
\* pushed is emptied and its child no longer owned by the tree)
PushLeft_release ==
    LET RECURSIVE Detach(_, _)
        Detach(t, p) ==
            IF p = <<>> THEN Node(val(t), Nil, rightOf(t))
            ELSE IF Head(p) = "L"
                 THEN Node(val(t), Detach(leftOf(t), Tail(p)), rightOf(t))
                 ELSE Node(val(t), leftOf(t), Detach(rightOf(t), Tail(p)))
    IN  /\ pc = "validate_inner"
        /\ curr # nullptr
        /\ stack' = Append(stack, curr)
        /\ curr' = getLeft(root, curr)
        /\ root' = Detach(root, curr)
        /\ UNCHANGED <<pc, prev, visited, result, arrayVars, buildVars>>
        /\ UNCHANGED threadVars

\* Lines 38-41: stack.push(curr); curr = curr->left.get();
PushLeft ==
    /\ pc = "validate_inner"
    /\ curr # nullptr
    /\ stack' = Append(stack, curr)
    /\ curr' = getLeft(root, curr)
    /\ UNCHANGED <<pc, root, prev, visited, result, arrayVars, buildVars>>
    /\ UNCHANGED threadVars

\* Lines 43-52: the inner loop ended; pop the top, compare it with prev and
\* return false, or move on to its right child.  (top() and pop() of an
\* empty stack are undefined behaviour.)
Visit ==
    /\ pc = "validate_inner"
    /\ curr = nullptr
    /\ IF stack = <<>>
       THEN pc' = "validate_ub" /\ UNCHANGED <<stack, curr, prev, visited, result>>
       ELSE LET top == stack[Len(stack)] IN
            /\ stack' = SubSeq(stack, 1, Len(stack) - 1)
            /\ visited' = Append(visited, top)
            /\ IF outOfOrder(root, top, prev)
               THEN /\ curr' = top
                    /\ prev' = prev
                    /\ result' = FALSE
                    /\ pc' = "validate_done"
               ELSE /\ prev' = top
                    /\ curr' = getRight(root, top)
                    /\ result' = result
                    /\ pc' = "validate_outer"
    /\ UNCHANGED <<root, arrayVars, buildVars>>
    /\ UNCHANGED threadVars

NextValidate ==
    \/ ValidateEnter \/ OuterLoopEnter \/ ValidateReturnTrue
    \/ PushLeft \/ Visit

SpecValidate == InitValidate /\ [][NextValidate]_vars

\* -------------------------------------------- Solution::sortedArrayToBST
\* index >= static_cast<int>(nums.size())
\* (faulty variant: > for >=)
atEnd_off(ns, i) == i > size(ns)
atEnd(ns, i) == i >= size(ns)

\* index++
\* (faulty variant: the cursor is not advanced)
advance_stuck(i) == i
advance(i) == i + 1

\* val <= lower_bound || val >= upper_bound
\* (faulty variant: inclusive bounds)
outOfRange_inclusive(v, lo, hi) == v < lo \/ v > hi
\* (faulty variant: the lower bound is not checked)
outOfRange_upper(v, lo, hi) == v >= hi
outOfRange(v, lo, hi) == v <= lo \/ v >= hi

RECURSIVE build(_, _, _, _)
\* std::unique_ptr<TreeNode<T>> build(nums, int& index, lower_bound,
\* upper_bound): the subtree returned and the cursor left in index.
build(ns, i, lo, hi) ==
    IF atEnd(ns, i) THEN [node |-> Nil, index |-> i]
    ELSE IF outOfRange(At(ns, i), lo, hi) THEN [node |-> Nil, index |-> i]
    ELSE LET v == At(ns, i)
             l == build(ns, advance(i), lo, v)
             r == build(ns, l.index, v, hi)
         IN  [node |-> Node(v, l.node, r.node), index |-> r.index]

\* std::unique_ptr<TreeNode<T>> sortedArrayToBST(const std::vector<T>& nums)
sortedArrayToBST(ns) ==
    IF size(ns) = 0 THEN Nil ELSE build(ns, 0, lowest, max).node

\* An activation of build: its bounds, where it stands ("entry": lines
\* 138-147, "left": waiting for the call of line 155, "right": for that of
\* line 157), and its locals val and node->left.
Frame(lo, hi) ==
    [lower_bound |-> lo, upper_bound |-> hi, at |-> "entry",
     val |-> lowest, left |-> Nil]

Top(fs) == fs[Len(fs)]
Pop(fs) == SubSeq(fs, 1, Len(fs) - 1)
ReplaceTop(fs, f) == Append(Pop(fs), f)

InitBuild ==
    /\ pc = "build"
    /\ nums \in Vectors
    /\ index = 0 /\ frames = <<>> /\ ret = Nil
    /\ result = NULL
    /\ IdleArray /\ IdleTree
    /\ IdleThreads

\* Line 131: if (nums.empty()) return nullptr;
BuildEmpty ==
    /\ pc = "build"
    /\ size(nums) = 0
    /\ calls' = Append(calls, "sortedArrayToBST")
    /\ result' = Nil
    /\ pc' = "build_done"
    /\ UNCHANGED <<nums, arr, target, left, right, peakIndex, reads, iters>>
    /\ UNCHANGED <<index, frames, ret, treeVars>>
    /\ UNCHANGED threadVars

\* Lines 132-133: int index = 0; the top-level call of build.
BuildEnter ==
    /\ pc = "build"
    /\ size(nums) # 0
    /\ calls' = calls \o <<"sortedArrayToBST", "build">>
    /\ index' = 0
    /\ frames' = <<Frame(lowest, max)>>
    /\ pc' = "build_call"
    /\ UNCHANGED <<nums, arr, target, left, right, peakIndex, reads, iters>>
    /\ UNCHANGED <<result, ret, treeVars>>
    /\ UNCHANGED threadVars

\* Lines 138-140: the cursor is at the end; return nullptr.
BuildAtEnd ==
    /\ pc = "build_call"
    /\ atEnd(nums, index)
    /\ frames' = Pop(frames)
    /\ ret' = Nil
    /\ pc' = "build_ret"
    /\ UNCHANGED <<result, index, arrayVars, treeVars>>
    /\ UNCHANGED threadVars

\* Lines 142-147: nums[index] is outside (lower_bound, upper_bound); return
\* nullptr and leave the cursor.  (A read of nums[index] outside the vector
\* is undefined behaviour.)
BuildReject ==
    /\ pc = "build_call"
    /\ ~atEnd(nums, index)
    /\ \/ index \notin Indices(nums)
       \/ outOfRange(At(nums, index), Top(frames).lower_bound,
                     Top(frames).upper_bound)
    /\ reads' = reads \cup {index}
    /\ IF index \in Indices(nums)
       THEN frames' = Pop(frames) /\ ret' = Nil /\ pc' = "build_ret"
       ELSE frames' = frames /\ ret' = ret /\ pc' = "build_ub"
    /\ UNCHANGED <<nums, arr, target, left, right, peakIndex, iters, calls>>
    /\ UNCHANGED <<result, index, treeVars>>
    /\ UNCHANGED threadVars

\* Lines 142-155: nums[index] is in range; consume it, make the node and
\* call build for the left subtree with bounds (lower_bound, val).
BuildConsume ==
    /\ pc = "build_call"
    /\ ~atEnd(nums, index)
    /\ index \in Indices(nums)
    /\ LET f == Top(frames)
           v == At(nums, index)
       IN  /\ ~outOfRange(v, f.lower_bound, f.upper_bound)
           /\ frames' = Append(ReplaceTop(frames, [f EXCEPT !.val = v,
                                                            !.at = "left"]),
                               Frame(f.lower_bound, v))
    /\ reads' = reads \cup {index}
    /\ index' = advance(index)
    /\ calls' = Append(calls, "build")
    /\ UNCHANGED <<pc, nums, arr, target, left, right, peakIndex, iters>>
    /\ UNCHANGED <<result, ret, treeVars>>
    /\ UNCHANGED threadVars

\* Lines 155-157: the left call returned; node->left takes its result and
\* build is called for the right subtree with bounds (val, upper_bound).
BuildLeftReturned ==
    /\ pc = "build_ret"
    /\ frames # <<>>
    /\ Top(frames).at = "left"
    /\ LET f == Top(frames) IN
        frames' = Append(ReplaceTop(frames, [f EXCEPT !.left = ret,
                                                     !.at = "right"]),
                         Frame(f.val, f.upper_bound))
    /\ calls' = Append(calls, "build")
    /\ pc' = "build_call"
    /\ UNCHANGED <<nums, arr, target, left, right, peakIndex, reads, iters>>
    /\ UNCHANGED <<result, index, ret, treeVars>>
    /\ UNCHANGED threadVars

\* Lines 157-159: the right call returned; node->right takes its result and
\* the node is returned.
BuildRightReturned ==
    /\ pc = "build_ret"
    /\ frames # <<>>
    /\ Top(frames).at = "right"
    /\ ret' = Node(Top(frames).val, Top(frames).left, ret)
    /\ frames' = Pop(frames)
    /\ UNCHANGED <<pc, result, index, arrayVars, treeVars>>
    /\ UNCHANGED threadVars

\* Line 133: the top-level call of build returned; return its tree.
BuildFinish ==
    /\ pc = "build_ret"
    /\ frames = <<>>
    /\ result' = ret
    /\ pc' = "build_done"
    /\ UNCHANGED <<index, frames, ret, arrayVars, treeVars>>
    /\ UNCHANGED threadVars

NextBuild ==
    \/ BuildEmpty \/ BuildEnter \/ BuildAtEnd \/ BuildReject \/ BuildConsume
    \/ BuildLeftReturned \/ BuildRightReturned \/ BuildFinish

SpecBuild == InitBuild /\ [][NextBuild]_vars

\* ------------------------------------------------------------ all programs
\* A run is a run of one of the four programs.
Init == InitSearch \/ InitMountain \/ InitValidate \/ InitBuild

Next ==
    \/ SearchEnter \/ SearchIterate \/ SearchNotFound
    \/ FindTargetEmpty \/ FindPeakEnter \/ FindPeakIterate \/ FindPeakReturn
    \/ SearchAscendingPart \/ SearchDescendingPart
    \/ ValidateEnter \/ OuterLoopEnter \/ ValidateReturnTrue
    \/ PushLeft \/ Visit
    \/ BuildEmpty \/ BuildEnter \/ BuildAtEnd \/ BuildReject \/ BuildConsume
    \/ BuildLeftReturned \/ BuildRightReturned \/ BuildFinish

Spec == Init /\ [][Next]_vars

\* ------------------------------------------------------- jthread_example
\* The ids given to thread_worker: t1 runs thread_worker(1), t2
\* thread_worker(2).
Workers == {1, 2}

\* std::cout << id
IdText(w) == IF w = 1 THEN "1" ELSE "2"

\* The positions of a call of thread_worker, in order: before each of the
\* three insertions of line 298, at the sleep of line 299, before each of
\* the three insertions of line 300, and after its return.
WorkerSteps ==
    <<"started_a", "started_b", "started_c", "sleep",
      "finished_a", "finished_b", "finished_c", "returned">>

\* The position after p.
NextStep(p) ==
    LET i == CHOOSE k \in 1..Len(WorkerSteps) : WorkerSteps[k] = p IN
    WorkerSteps[i + 1]

\* What thread_worker(w) inserts into std::cout at position p.
Piece(p, w) ==
    IF p \in {"started_a", "finished_a"} THEN "Thread "
    ELSE IF p \in {"started_b", "finished_b"} THEN IdText(w)
    ELSE IF p = "started_c" THEN " started\n"
    ELSE " finished\n"

\* One insertion into std::cout by a thread (0 is the main thread).
Insert(o, by, text) == Append(o, [by |-> by, text |-> text])

\* (faulty variant: the thread is detached, its end is not waited for)
join_detached(w) == TRUE
\* std::jthread::~jthread: join() returns once the thread's function has
\* returned.
join(w) == worker[w] = "returned"

InitJthread ==
    /\ pc = "jthread"
    /\ worker = [w \in Workers |-> "not_started"]
    /\ out = <<>>
    /\ result = NULL
    /\ nums = <<>> /\ IdleArray /\ IdleTree /\ IdleBuild

\* What no step of jthread_example touches.
otherVars == <<nums, arr, target, left, right, peakIndex, result, reads, iters,
               calls, root, stack, curr, prev, visited, index, frames, ret>>

\* Line 304: the heading.
JthreadHeading ==
    /\ pc = "jthread"
    /\ out' = Insert(out, 0, "\n=== 7. std::jthread (Joinable Thread) ===\n")
    /\ pc' = "jthread_t1"
    /\ UNCHANGED <<worker, otherVars>>

\* Line 308: std::jthread t1(thread_worker, 1);
StartT1 ==
    /\ pc = "jthread_t1"
    /\ worker' = [worker EXCEPT ![1] = WorkerSteps[1]]
    /\ pc' = "jthread_t2"
    /\ UNCHANGED <<out, otherVars>>

\* Line 309: std::jthread t2(thread_worker, 2);
StartT2 ==
    /\ pc = "jthread_t2"
    /\ worker' = [worker EXCEPT ![2] = WorkerSteps[1]]
    /\ pc' = "jthread_continues"
    /\ UNCHANGED <<out, otherVars>>

\* Line 310: std::cout << "Main thread continues...\n";
MainContinues ==
    /\ pc = "jthread_continues"
    /\ out' = Insert(out, 0, "Main thread continues...\n")
    /\ pc' = "jthread_join_t2"
    /\ UNCHANGED <<worker, otherVars>>

\* Line 312: the scope ends; t2, constructed last, is destroyed first.
JoinT2 ==
    /\ pc = "jthread_join_t2"
    /\ join(2)
    /\ pc' = "jthread_join_t1"
    /\ UNCHANGED <<worker, out, otherVars>>

\* Line 312: then t1 is destroyed.
JoinT1 ==
    /\ pc = "jthread_join_t1"
    /\ join(1)
    /\ pc' = "jthread_finished"
    /\ UNCHANGED <<worker, out, otherVars>>

\* Line 313: std::cout << "All threads finished\n";
AllFinished ==
    /\ pc = "jthread_finished"
    /\ out' = Insert(out, 0, "All threads finished\n")
    /\ pc' = "jthread_done"
    /\ UNCHANGED <<worker, otherVars>>

\* Lines 298 and 300: one operator<< of thread_worker(w).
WorkerInsert(w) ==
    /\ worker[w] \in {"started_a", "started_b", "started_c",
                      "finished_a", "finished_b", "finished_c"}
    /\ out' = Insert(out, w, Piece(worker[w], w))
    /\ worker' = [worker EXCEPT ![w] = NextStep(worker[w])]
    /\ UNCHANGED <<pc, otherVars>>

\* Line 299: std::this_thread::sleep_for(100ms) returns.
WorkerSleep(w) ==
    /\ worker[w] = "sleep"
    /\ worker' = [worker EXCEPT ![w] = NextStep(worker[w])]
    /\ UNCHANGED <<pc, out, otherVars>>

NextJthread ==
    \/ JthreadHeading \/ StartT1 \/ StartT2 \/ MainContinues
    \/ JoinT2 \/ JoinT1 \/ AllFinished
    \/ \E w \in Workers : WorkerInsert(w)
    \/ \E w \in Workers : WorkerSleep(w)

SpecJthread == InitJthread /\ [][NextJthread]_vars

\* ---- properties of search
\* s[1] < s[2] < ... < s[n]
StrictlyAscending(s) == \A i \in 1..(Len(s) - 1) : s[i] < s[i + 1]

\* s[1] > s[2] > ... > s[n]
StrictlyDescending(s) == \A i \in 1..(Len(s) - 1) : s[i] > s[i + 1]

\* A duplicate-free ascending vector rotated at pivot k: its elements from
\* index k on, followed by those before k, are strictly ascending.
RotatedAt(s, k) ==
    /\ k \in 0..(Len(s) - 1)
    /\ StrictlyAscending(SubSeq(s, k + 1, Len(s)) \o SubSeq(s, 1, k))

IsRotatedSorted(s) == \E k \in 0..(Len(s) - 1) : RotatedAt(s, k)

\* The value occurs in the vector.
Occurs(s, t) == \E i \in 1..Len(s) : s[i] = t

\* C1: on every duplicate-free ascending vector rotated at any pivot, search
\* returns the index holding the target when it occurs, and -1 when it does
\* not.
C1_SearchCorrect ==
    (pc = "search_done" /\ IsRotatedSorted(nums)) =>
        IF Occurs(nums, target)
        THEN result \in Indices(nums) /\ At(nums, result) = target
        ELSE result = NotFound

\* A properly rotated vector of three elements or more whose target was
\* found after the first iteration.
C1_Witness ==
    /\ pc = "search_done"
    /\ IsRotatedSorted(nums) /\ ~RotatedAt(nums, 0) /\ size(nums) >= 3
    /\ result # NotFound /\ iters >= 2

\* ---- properties of findTargetInMountainArray
\* Strictly increasing up to the peak at index p, strictly decreasing after.
MountainAt(s, p) ==
    /\ p \in 0..(Len(s) - 1)
    /\ StrictlyAscending(SubSeq(s, 1, p + 1))
    /\ StrictlyDescending(SubSeq(s, p + 1, Len(s)))

IsMountain(s) == \E p \in 0..(Len(s) - 1) : MountainAt(s, p)

\* C2: on every mountain vector findTargetInMountainArray returns an index
\* holding the target when the target occurs, and -1 when it occurs in
\* neither run.
C2_MountainCorrect ==
    (pc = "mountain_done" /\ IsMountain(arr)) =>
        IF Occurs(arr, target)
        THEN result \in Indices(arr) /\ At(arr, result) = target
        ELSE result = NotFound

\* A mountain with an interior peak whose target was found in the
\* descending run.
C2_Witness ==
    /\ pc = "mountain_done"
    /\ IsMountain(arr) /\ ~MountainAt(arr, 0) /\ ~MountainAt(arr, size(arr) - 1)
    /\ result # NotFound /\ result > peakIndex

\* ---- properties of isValidBST
RECURSIVE InOrder(_)
\* The node values in in-order: left subtree, node, right subtree.
InOrder(t) ==
    IF t = Nil THEN <<>>
    ELSE InOrder(leftOf(t)) \o <<val(t)>> \o InOrder(rightOf(t))

RECURSIVE PreOrder(_)
\* The node values in pre-order: node, left subtree, right subtree.
PreOrder(t) ==
    IF t = Nil THEN <<>>
    ELSE <<val(t)>> \o PreOrder(leftOf(t)) \o PreOrder(rightOf(t))

\* C3: isValidBST returns true exactly when the in-order sequence of the
\* node values is strictly increasing.
C3_ValidIffInOrderIncreasing ==
    pc = "validate_done" => (result <=> StrictlyAscending(InOrder(root)))

\* A three-node tree rejected at its third node in in-order.
C3_Witness ==
    /\ pc = "validate_done"
    /\ Len(InOrder(root)) = 3
    /\ result = FALSE
    /\ Len(visited) = 3

\* ---- properties of sortedArrayToBST
RECURSIVE Values(_)
\* The set of node values of a tree.
Values(t) ==
    IF t = Nil THEN {}
    ELSE {val(t)} \cup Values(leftOf(t)) \cup Values(rightOf(t))

RECURSIVE IsBST(_)
\* A binary search tree with distinct values: at every node the values of
\* the left subtree are smaller and those of the right subtree larger.
IsBST(t) ==
    \/ t = Nil
    \/ /\ \A x \in Values(leftOf(t)) : x < val(t)
       /\ \A x \in Values(rightOf(t)) : x > val(t)
       /\ IsBST(leftOf(t))
       /\ IsBST(rightOf(t))

RECURSIVE IsBSTPreorder(_)
\* The sequence is the pre-order of a binary search tree with distinct
\* values: after the head come the smaller values, then the larger ones,
\* and both parts are such pre-orders themselves.
IsBSTPreorder(s) ==
    \/ s = <<>>
    \/ LET v == Head(s)
           rest == Tail(s)
           k == Cardinality({i \in 1..Len(rest) : rest[i] < v})
       IN  /\ \A i \in 1..k : rest[i] < v
           /\ \A i \in (k + 1)..Len(rest) : rest[i] > v
           /\ IsBSTPreorder(SubSeq(rest, 1, k))
           /\ IsBSTPreorder(SubSeq(rest, k + 1, Len(rest)))

\* C4: for the pre-order of a binary search tree with distinct values of the
\* element type, sortedArrayToBST returns that tree (a binary search tree
\* whose pre-order is the input) and leaves the cursor at the length of the
\* input.
C4_BuildReconstructs ==
    (pc = "build_done" /\ IsBSTPreorder(nums)) =>
        /\ PreOrder(result) = nums
        /\ IsBST(result)
        /\ index = size(nums)

\* C5: round trip: for a binary search tree with distinct values isValidBST
\* returns true and the in-order of the tree rebuilt from its pre-order is
\* the in-order of the tree.
C5_RoundTrip ==
    (pc = "validate_done" /\ IsBST(root)) =>
        /\ result = TRUE
        /\ InOrder(sortedArrayToBST(PreOrder(root))) = InOrder(root)

\* C6: isValidBST returns true on the tree sortedArrayToBST returns, for
\* every input sequence, strictly increasing or not, valid pre-order or not.
C6_BuiltTreeValidates ==
    pc = "build_done" => isValidBST(result)

\* An input that is no pre-order of a binary search tree, from which a tree
\* of two nodes or more was built.
C6_Witness ==
    /\ pc = "build_done"
    /\ ~IsBSTPreorder(nums)
    /\ Len(PreOrder(result)) >= 2

\* C7 as stated: isValidBST on the tree built tells whether the input was
\* the pre-order of a binary search tree.
C7_ComposeDetectsInvalid ==
    pc = "build_done" => (isValidBST(result) <=> IsBSTPreorder(nums))

\* C7 as amended: isValidBST returns true on the tree built from every input,
\* the pre-order of a binary search tree or not; for an input that is none
\* the tree holds a proper prefix of the input only.
C7_ComposeNeverRejects ==
    pc = "build_done" =>
        IF IsBSTPreorder(nums)
        THEN isValidBST(result)
        ELSE /\ isValidBST(result)
             /\ index < size(nums)
             /\ PreOrder(result) = SubSeq(nums, 1, index)

\* An input with a duplicate, of which a proper prefix was built.
C7_Witness ==
    /\ pc = "build_done"
    /\ ~IsBSTPreorder(nums)
    /\ \E i, j \in 1..Len(nums) : i # j /\ nums[i] = nums[j]
    /\ index >= 1 /\ index < size(nums)

\* The positions of the program sortedArrayToBST.
BuildPcs == {"build", "build_call", "build_ret", "build_done", "build_ub"}

\* C8: on an input that is no pre-order of a binary search tree (duplicates
\* included) sortedArrayToBST raises no error: no read is outside the
\* vector, the cursor stays within 0..size, at most 2 * size + 1 calls of
\* build are made, every call made can go on until the result is returned,
\* and the result is a tree holding the consumed prefix of the input.
C8_InvalidInputNoError ==
    (pc \in BuildPcs /\ ~IsBSTPreorder(nums)) =>
        /\ pc # "build_ub"
        /\ reads \subseteq Indices(nums)
        /\ index \in 0..size(nums)
        /\ Len(calls) <= 2 * size(nums) + 2
        /\ Len(frames) <= size(nums) + 1
        /\ pc = "build_done" \/ ENABLED NextBuild
        /\ pc = "build_done" =>
               /\ PreOrder(result) = SubSeq(nums, 1, index)
               /\ Len(calls) = 2 * index + 2

\* An invalid input whose run ended with elements left unconsumed after a
\* node was made.
C8_Witness ==
    /\ pc = "build_done"
    /\ ~IsBSTPreorder(nums)
    /\ result # Nil
    /\ index < size(nums)

\* ---- empty inputs
\* C9: on an empty vector both searches return -1 without reading an
\* element: search runs its loop zero times with right = -1, and
\* findTargetInMountainArray returns before findPeakIndex is called.
C9_EmptyInputNotFound ==
    /\ (pc \in {"search_loop", "search_done", "search_ub"} /\ size(nums) = 0) =>
           /\ right = -1
           /\ iters = 0
           /\ reads = {}
           /\ pc # "search_ub"
           /\ pc = "search_done" => result = -1
    /\ (pc \in {"peak_loop", "ascending", "descending", "mountain_done",
                "mountain_ub"} /\ size(arr) = 0) =>
           /\ pc = "mountain_done"
           /\ result = -1
           /\ reads = {}
           /\ calls = <<"findTargetInMountainArray">>

\* Both searches have returned on the empty vector (either program).
C9_Witness ==
    \/ pc = "search_done" /\ size(nums) = 0 /\ calls = <<"search">>
    \/ pc = "mountain_done" /\ size(arr) = 0

\* C10: sortedArrayToBST returns the empty tree on the empty sequence, and
\* isValidBST returns true on a null root without pushing or visiting a node.
C10_EmptyTree ==
    /\ (pc = "build_done" /\ size(nums) = 0) =>
           result = Nil /\ reads = {}
    /\ (pc \in {"validate_outer", "validate_inner", "validate_done",
                "validate_ub"} /\ root = Nil) =>
           /\ pc \in {"validate_outer", "validate_done"}
           /\ stack = <<>>
           /\ visited = <<>>
           /\ pc = "validate_done" => result = TRUE

\* Either program has returned on its empty input.
C10_Witness ==
    \/ pc = "build_done" /\ size(nums) = 0
    \/ pc = "validate_done" /\ root = Nil

\* ---- the two runs of a mountain
\* The target occurs at an index of lo..hi.
OccursIn(s, t, lo, hi) == \E i \in lo..hi : i \in Indices(s) /\ At(s, i) = t

\* The positions of findTargetInMountainArray after findPeakIndex returned.
AfterPeakPcs == {"ascending", "descending", "mountain_done", "mountain_ub"}

\* C11: when the target occurs both in the ascending prefix [0, peak] and in
\* the descending suffix [peak + 1, n - 1] of a mountain, the index returned
\* is the one in the prefix; and on any vector binarySearchDescending is
\* called only after binarySearchAscending returned -1.
C11_AscendingSideFirst ==
    /\ (pc = "mountain_done" /\ IsMountain(arr)
          /\ OccursIn(arr, target, 0, peakIndex)
          /\ OccursIn(arr, target, peakIndex + 1, size(arr) - 1)) =>
           /\ result \in 0..peakIndex
           /\ At(arr, result) = target
           /\ calls = <<"findTargetInMountainArray", "findPeakIndex",
                        "binarySearchAscending">>
    /\ (pc \in AfterPeakPcs /\ Len(calls) >= 4) =>
           /\ calls = <<"findTargetInMountainArray", "findPeakIndex",
                        "binarySearchAscending", "binarySearchDescending">>
           /\ binarySearchAscending(arr, target, 0, peakIndex) = NotFound

\* A mountain holding the target on both sides of its peak.
C11_Witness ==
    /\ pc = "mountain_done"
    /\ IsMountain(arr)
    /\ OccursIn(arr, target, 0, peakIndex)
    /\ OccursIn(arr, target, peakIndex + 1, size(arr) - 1)

\* C12: on a strictly increasing vector (peak at the last index), a strictly
\* decreasing one (peak at index 0) and a single element, every read is at
\* an index of 0..n-1, both sub-searches get a range with
\* 0 <= left <= right + 1 <= n (the descending range is empty and read
\* nowhere when the peak is the last index), and the index returned holds
\* the target, or -1 is returned when the target is absent.
C12_DegenerateMountains ==
    (pc \in {"peak_loop"} \cup AfterPeakPcs /\ size(arr) >= 1
        /\ (StrictlyAscending(arr) \/ StrictlyDescending(arr))) =>
        /\ pc # "mountain_ub"
        /\ reads \subseteq Indices(arr)
        /\ pc \in AfterPeakPcs =>
               /\ StrictlyAscending(arr) => peakIndex = size(arr) - 1
               /\ StrictlyDescending(arr) => peakIndex = 0
               /\ 0 <= peakIndex + 1 /\ peakIndex + 1 <= size(arr)
               /\ peakIndex + 1 <= LastIndex(arr) + 1
               /\ peakIndex = size(arr) - 1 =>
                      binarySearchReads(arr, target, peakIndex + 1,
                                        LastIndex(arr), TRUE) = {}
        /\ pc = "mountain_done" =>
               IF Occurs(arr, target)
               THEN result \in Indices(arr) /\ At(arr, result) = target
               ELSE result = NotFound

\* A strictly increasing vector of three elements or more whose descending
\* (empty) range was searched.
C12_Witness ==
    /\ pc = "mountain_done"
    /\ StrictlyAscending(arr) /\ size(arr) >= 3
    /\ peakIndex = size(arr) - 1
    /\ Len(calls) = 4

\* C13: on a mountain findPeakIndex returns the peak index (the only index
\* with the vector strictly increasing up to it and strictly decreasing
\* after it, holding the maximum), and at every iteration of its loop the
\* peak lies in [left, right].
C13_PeakFound ==
    IsMountain(arr) =>
        /\ pc = "peak_loop" =>
               \E p \in left..right : MountainAt(arr, p)
        /\ pc \in AfterPeakPcs =>
               /\ pc # "mountain_ub"
               /\ MountainAt(arr, peakIndex)
               /\ \A p \in Indices(arr) : MountainAt(arr, p) => p = peakIndex
               /\ \A i \in Indices(arr) : At(arr, i) <= At(arr, peakIndex)

\* A mountain with an interior peak found after two iterations or more.
C13_Witness ==
    /\ pc = "ascending"
    /\ IsMountain(arr)
    /\ peakIndex > 0 /\ peakIndex < size(arr) - 1
    /\ iters >= 2

\* ---- ancestor bounds
\* The bounds definition of a binary search tree: every value is above the
\* value of each ancestor it is in the right subtree of (lows) and below the
\* value of each ancestor it is in the left subtree of (highs).
RECURSIVE WithinBounds(_, _, _)
WithinBounds(t, lows, highs) ==
    IF t = Nil THEN TRUE
    ELSE /\ \A lo \in lows : lo < val(t)
         /\ \A hi \in highs : val(t) < hi
         /\ WithinBounds(leftOf(t), lows, highs \cup {val(t)})
         /\ WithinBounds(rightOf(t), lows \cup {val(t)}, highs)

\* Every node is correctly ordered relative to its own parent.
RECURSIVE ParentOrdered(_)
ParentOrdered(t) ==
    IF t = Nil THEN TRUE
    ELSE /\ leftOf(t) # Nil => val(leftOf(t)) < val(t)
         /\ rightOf(t) # Nil => val(t) < val(rightOf(t))
         /\ ParentOrdered(leftOf(t))
         /\ ParentOrdered(rightOf(t))

\* C14: isValidBST returns false for every tree in which some node violates
\* a bound set by an ancestor that is not its parent, every node being
\* correctly ordered relative to its own parent.
C14_AncestorViolationRejected ==
    (pc = "validate_done" /\ ParentOrdered(root)
        /\ ~WithinBounds(root, {}, {})) => result = FALSE

\* A rejected tree whose nodes are all ordered relative to their parents.
C14_Witness ==
    /\ pc = "validate_done"
    /\ ParentOrdered(root)
    /\ ~WithinBounds(root, {}, {})
    /\ result = FALSE

\* C20: on every finite binary tree the iterative isValidBST returns true
\* exactly when every node's value lies strictly between the lower and
\* upper bounds accumulated from its ancestors.
C20_AgreesWithBoundsDefinition ==
    pc = "validate_done" => (result = WithinBounds(root, {}, {}))

\* An accepted tree whose root has both children.
C20_Witness ==
    /\ pc = "validate_done"
    /\ root # Nil /\ leftOf(root) # Nil /\ rightOf(root) # Nil
    /\ WithinBounds(root, {}, {})
    /\ result = TRUE

\* ---- frame
\* C15: no step of search, findTargetInMountainArray, isValidBST or
\* sortedArrayToBST changes its input: the vectors and the target stay as
\* they are, and the tree keeps every value and every child link (each node
\* stays nested in, that is owned by, its parent).
C15_InputsUnmodified ==
    [][nums' = nums /\ arr' = arr /\ target' = target /\ root' = root]_vars

\* A validation that pushed, popped and visited every node of a tree with a
\* left link.
C15_Witness ==
    /\ pc = "validate_done"
    /\ root # Nil /\ leftOf(root) # Nil
    /\ result = TRUE
    /\ Len(visited) >= 2

\* ---- termination
\* The positions a call has returned at, and those of undefined behaviour.
DonePcs == {"search_done", "mountain_done", "validate_done", "build_done"}
UbPcs == {"search_ub", "mountain_ub", "validate_ub", "build_ub"}

\* The number of nodes of a tree.
RECURSIVE NodeCount(_)
NodeCount(t) ==
    IF t = Nil THEN 0 ELSE 1 + NodeCount(leftOf(t)) + NodeCount(rightOf(t))

\* What holds of every state of a run that terminates: a call that has not
\* returned can take a step, the loops' counts and the builder's cursor and
\* calls are bounded by the input's size, and no node is on the stack or
\* among the popped ones twice.
C17_Bounded ==
    /\ pc \notin UbPcs
    /\ pc \notin DonePcs => ENABLED Next
    /\ pc \in {"search_loop", "peak_loop"} => right - left >= -1
    /\ iters <= size(nums) + size(arr)
    /\ index <= size(nums)
    /\ pc \in BuildPcs => Len(calls) <= 2 * index + 2
    /\ \A i, j \in 1..Len(stack \o visited) :
           (stack \o visited)[i] = (stack \o visited)[j] => i = j
    /\ Len(stack) + Len(visited) <= NodeCount(root)

\* What holds of every step: an iteration of either search loop that goes
\* round again has made right - left smaller, a node pushed was never
\* pushed before, and a call of build either consumes one element (and
\* calls build for its left subtree) or returns empty with the cursor where
\* it was.
C17_Progress ==
    /\ (pc = "search_loop" /\ pc' = "search_loop") =>
           right' - left' < right - left
    /\ (pc = "peak_loop" /\ pc' = "peak_loop") =>
           right' - left' < right - left
    /\ (pc = "peak_loop" /\ pc' # "peak_loop") => left >= right
    /\ Len(stack') > Len(stack) =>
           /\ stack' = Append(stack, curr)
           /\ \A i \in 1..Len(stack \o visited) : (stack \o visited)[i] # curr
    /\ pc = "build_call" =>
           \/ pc' = "build_call" /\ index' = index + 1
                /\ Len(frames') = Len(frames) + 1
           \/ pc' = "build_ret" /\ index' = index /\ ret' = Nil
                /\ Len(frames') = Len(frames) - 1

\* C17: every call of search, findPeakIndex, isValidBST and build
\* terminates on every finite input, whatever the vector, the tree or the
\* sequence: right - left strictly decreases at each iteration of both
\* search loops, isValidBST pushes each node at most once, every call of
\* build consumes one element or returns empty, and no call gets stuck
\* before it returns.
C17_Terminates == []C17_Bounded /\ [][C17_Progress]_vars

\* findPeakIndex returned after its loop went round twice or more on a
\* vector that is no mountain.
C17_Witness ==
    /\ pc = "ascending"
    /\ ~IsMountain(arr)
    /\ iters >= 2

\* ---- cost of search
\* floor(log2(n)) for n >= 1.
RECURSIVE Log2(_)
Log2(n) == IF n <= 1 THEN 0 ELSE 1 + Log2(n \div 2)

SearchPcs == {"search_loop", "search_done", "search_ub"}

\* C18: on a vector of n >= 1 elements, whatever its content and the
\* target, the loop of search runs floor(log2(n)) + 1 iterations at most
\* before search returns (each iteration at least halves the range left),
\* and search keeps no state but left and right (and mid within an
\* iteration): no stack, no call frames.
C18_LogarithmicIterations ==
    (pc \in SearchPcs /\ size(nums) >= 1) =>
        /\ iters <= Log2(size(nums)) + 1
        /\ (pc = "search_loop" /\ left <= right) =>
               iters + Log2(right - left + 1) + 1 <= Log2(size(nums)) + 1
        /\ IdleTree /\ IdleBuild

\* A search of MaxLen elements that took every iteration the bound allows.
C18_Witness ==
    /\ pc = "search_done"
    /\ size(nums) = MaxLen
    /\ iters = Log2(MaxLen) + 1
    /\ result = NotFound

\* ---- the steps of build
\* A step taken by a call of build at its entry: with the cursor at the end
\* or the value at the cursor <= lower_bound or >= upper_bound the call
\* returns empty and the cursor stays; otherwise the cursor advances by one
\* and build is called for the left subtree with bounds (lower_bound, val).
C19_EntryStep ==
    pc = "build_call" =>
        LET f == Top(frames)
            v == At(nums, index)
        IN  IF \/ index >= size(nums)
               \/ v <= f.lower_bound
               \/ v >= f.upper_bound
            THEN /\ pc' = "build_ret"
                 /\ ret' = Nil
                 /\ index' = index
                 /\ frames' = Pop(frames)
            ELSE /\ pc' = "build_call"
                 /\ index' = index + 1
                 /\ Len(frames') = Len(frames) + 1
                 /\ Top(Pop(frames')).val = v
                 /\ Top(Pop(frames')).at = "left"
                 /\ Top(frames').lower_bound = f.lower_bound
                 /\ Top(frames').upper_bound = v

\* A step taken when a call made by build returned: after the left call
\* build is called for the right subtree with bounds (val, upper_bound),
\* after the right call the node is returned with both subtrees; the cursor
\* moves in neither.
C19_ReturnStep ==
    (pc = "build_ret" /\ frames # <<>>) =>
        LET f == Top(frames) IN
        /\ index' = index
        /\ IF f.at = "left"
           THEN /\ pc' = "build_call"
                /\ Len(frames') = Len(frames) + 1
                /\ Top(Pop(frames')).left = ret
                /\ Top(Pop(frames')).at = "right"
                /\ Top(frames').lower_bound = f.val
                /\ Top(frames').upper_bound = f.upper_bound
           ELSE /\ f.at = "right"
                /\ pc' = "build_ret"
                /\ frames' = Pop(frames)
                /\ ret' = Node(f.val, f.left, ret)

\* C19: a call of build that returns an empty subtree (cursor at the end,
\* or value at the cursor <= lower bound or >= upper bound) leaves the
\* cursor unchanged; a call that creates a node advances the cursor by
\* exactly one before it recurses, then builds the left subtree with bounds
\* (lower, val) before the right subtree with bounds (val, upper), so that
\* the tree returned lists the consumed elements in pre-order.
C19_BuildSteps ==
    [][/\ C19_EntryStep
       /\ C19_ReturnStep
       /\ pc' = "build_done" =>
              (index' = index /\ PreOrder(result') = SubSeq(nums, 1, index))
      ]_vars

\* A build that returned a node with both subtrees, other elements being
\* left unconsumed by calls that returned empty.
C19_Witness ==
    /\ pc = "build_done"
    /\ result # Nil /\ leftOf(result) # Nil /\ rightOf(result) # Nil
    /\ index < size(nums)

\* ---- duplicates
\* Two nodes of the tree hold the same value.
HasDuplicate(t) == Cardinality(Values(t)) < NodeCount(t)

\* C21: isValidBST returns false for every tree holding two nodes of equal
\* value, wherever they are: a child equal to its parent on either side, or
\* equal values in different subtrees.
C21_DuplicatesRejected ==
    (pc = "validate_done" /\ HasDuplicate(root)) => result = FALSE

\* A rejected tree whose only equal values are in different subtrees.
C21_Witness ==
    /\ pc = "validate_done"
    /\ root # Nil /\ leftOf(root) # Nil /\ rightOf(root) # Nil
    /\ val(leftOf(root)) = val(rightOf(root))
    /\ val(root) # val(leftOf(root))
    /\ result = FALSE

\* ---- the order of the visits
\* The nodes (as pointers from the root p) of a tree in in-order.
RECURSIVE InOrderPaths(_, _)
InOrderPaths(t, p) ==
    IF t = Nil THEN <<>>
    ELSE InOrderPaths(leftOf(t), Append(p, "L")) \o <<p>>
         \o InOrderPaths(rightOf(t), Append(p, "R"))

\* The elements of a sequence.
Range(s) == {s[i] : i \in 1..Len(s)}

\* visited is the in-order prefix that ends at the first node whose value
\* is not strictly greater than its in-order predecessor's.
EndsAtFirstFailure ==
    LET io == InOrderPaths(root, <<>>)
        k == Len(visited)
    IN  /\ k >= 2 /\ k <= Len(io)
        /\ visited = SubSeq(io, 1, k)
        /\ val(NodeAt(root, io[k])) <= val(NodeAt(root, io[k - 1]))
        /\ \A j \in 2..(k - 1) :
               val(NodeAt(root, io[j])) > val(NodeAt(root, io[j - 1]))

\* The nodes that follow the last visited one in in-order.
NodesAfterLastVisit ==
    LET io == InOrderPaths(root, <<>>) IN
    {io[j] : j \in (Len(visited) + 1)..Len(io)}

\* The ancestors a node lies in the left subtree of, from the root down.
RECURSIVE LeftAncestors(_, _)
LeftAncestors(p, k) ==
    IF k > Len(p) THEN <<>>
    ELSE (IF p[k] = "L" THEN <<SubSeq(p, 1, k - 1)>> ELSE <<>>)
         \o LeftAncestors(p, k + 1)

\* C22 (as stated): when isValidBST returns false, the nodes visited are
\* the in-order prefix ending at the first node not strictly greater than
\* its in-order predecessor, and no node after that one has been visited,
\* pushed or made current.
C22_FailsImmediately ==
    (pc = "validate_done" /\ result = FALSE) =>
        /\ EndsAtFirstFailure
        /\ \A n \in NodesAfterLastVisit :
               n \notin Range(visited) /\ n \notin Range(stack) /\ n # curr

\* C22 (amended): when isValidBST returns false, the nodes visited are the
\* in-order prefix ending at the first node not strictly greater than its
\* in-order predecessor; that node is the current one, no node after it has
\* been visited or is current, and the stack holds exactly the ancestors
\* that node lies in the left subtree of (pushed before it was visited, and
\* following it in in-order): nothing was pushed after the comparison.
C22_FailsAtFirstOffender ==
    (pc = "validate_done" /\ result = FALSE) =>
        /\ EndsAtFirstFailure
        /\ curr = visited[Len(visited)]
        /\ \A n \in NodesAfterLastVisit : n \notin Range(visited) /\ n # curr
        /\ stack = LeftAncestors(curr, 1)
        /\ Range(stack) \subseteq NodesAfterLastVisit

\* A rejection at a node of a left subtree, its ancestor still on the stack
\* and a node after it never visited.
C22_Witness ==
    /\ pc = "validate_done" /\ result = FALSE
    /\ stack # <<>>
    /\ Len(visited) = 2

\* ---- exact matches
\* C23: whatever the vector (mountain or not, rotated ascending or not,
\* with or without duplicates), a result other than -1 of search or of
\* findTargetInMountainArray is an index of the vector holding the target;
\* a lower-bound position holding another value is never returned.
C23_MatchIsExact ==
    /\ (pc = "search_done" /\ result # NotFound) =>
           result \in Indices(nums) /\ At(nums, result) = target
    /\ (pc = "mountain_done" /\ result # NotFound) =>
           result \in Indices(arr) /\ At(arr, result) = target
    /\ (pc = "mountain_done" /\ size(arr) > 0) =>
           LET asc == lower_bound(arr, 0, peakIndex + 1, target, FALSE)
               desc == lower_bound(arr, peakIndex + 1, size(arr), target, TRUE)
           IN  /\ result # NotFound => result \in {asc, desc}
               /\ (At(arr, asc) # target /\ At(arr, desc) # target) =>
                      result = NotFound

\* A vector that is no mountain, both lower-bound positions inside their
\* ranges and holding other values than the target: -1 is returned.
C23_Witness ==
    /\ pc = "mountain_done"
    /\ ~IsMountain(arr)
    /\ lower_bound(arr, 0, peakIndex + 1, target, FALSE) <= peakIndex
    /\ lower_bound(arr, peakIndex + 1, size(arr), target, TRUE) < size(arr)
    /\ result = NotFound

\* ---- the extreme values
\* The element type's lowest and maximum values.
Extremes == {lowest, max}

\* C24: the bounds of the top-level call of build are the element type's
\* lowest and maximum values, and they are exclusive: a sequence whose
\* first element is one of them yields the empty tree with nothing
\* consumed, and such a value later in the sequence is never placed in the
\* tree and stops the consumption there.
C24_ExtremesExcluded ==
    /\ (pc \in {"build_call", "build_ret"} /\ frames # <<>>) =>
           /\ frames[1].lower_bound = lowest
           /\ frames[1].upper_bound = max
    /\ pc = "build_done" =>
           /\ (size(nums) > 0 /\ At(nums, 0) \in Extremes) =>
                  result = Nil /\ index = 0
           /\ Values(result) \cap Extremes = {}
           /\ \A i \in Indices(nums) : At(nums, i) \in Extremes => index <= i

\* A build that consumed elements and stopped at the type's maximum.
C24_Witness ==
    /\ pc = "build_done"
    /\ index >= 1 /\ index < size(nums)
    /\ At(nums, index) = max
    /\ result # Nil

\* ---- the loop invariant of search
\* C25: on a duplicate-free rotated ascending vector, at the head of every
\* iteration of search (and when the loop ends), the target, if it is at
\* index k, has left <= k <= right; a target equal to nums[left] or to
\* nums[right] is not discarded by the tests that choose a half.
C25_TargetStaysInRange ==
    (pc = "search_loop" /\ IsRotatedSorted(nums)) =>
        \A k \in Indices(nums) :
            At(nums, k) = target => (left <= k /\ k <= right)

\* The head of a later iteration with the target at left or at right, the
\* range being wider than one element.
C25_Witness ==
    /\ pc = "search_loop"
    /\ IsRotatedSorted(nums)
    /\ iters >= 1
    /\ left < right
    /\ At(nums, left) = target \/ At(nums, right) = target

\* ---- index safety
\* C26: on every non-empty vector, no precondition assumed, every read
\* nums[left], nums[mid], nums[right] of search and every read arr[mid],
\* arr[mid + 1] of findPeakIndex is at an index of 0..n-1, and findPeakIndex
\* returns an index of 0..n-1.
C26_IndexSafety ==
    /\ (pc \in SearchPcs /\ size(nums) >= 1) =>
           /\ pc # "search_ub"
           /\ reads \subseteq Indices(nums)
           /\ (pc = "search_loop" /\ left <= right) =>
                  /\ searchReads(nums, target, left, right) \subseteq Indices(nums)
                  /\ {left, Mid(left, right), right} \subseteq Indices(nums)
    /\ (pc = "peak_loop" /\ size(arr) >= 1) =>
           /\ reads \subseteq Indices(arr)
           /\ left < right =>
                  findPeakReads(left, right) \subseteq Indices(arr)
    /\ (pc = "ascending" /\ size(arr) >= 1) =>
           /\ reads \subseteq Indices(arr)
           /\ peakIndex \in Indices(arr)
    /\ pc # "mountain_ub"

\* findPeakIndex returned after reading arr[mid] and arr[mid + 1] at the
\* last two indices of a vector that is no mountain.
C26_Witness ==
    /\ pc = "ascending"
    /\ ~IsMountain(arr)
    /\ size(arr) - 1 \in reads
    /\ iters >= 2

\* ---- what build consumes
\* C27: for every input sequence the pre-order of the tree returned by
\* sortedArrayToBST is the prefix of the input whose length is the final
\* cursor (the number of nodes is the final cursor), and the whole input is
\* consumed exactly when it is the pre-order of a binary search tree whose
\* values are strictly between the type's lowest and maximum values.
C27_ConsumedPrefix ==
    pc = "build_done" =>
        /\ PreOrder(result) = SubSeq(nums, 1, index)
        /\ NodeCount(result) = index
        /\ index = size(nums) <=>
               /\ IsBSTPreorder(nums)
               /\ \A i \in Indices(nums) : At(nums, i) \notin Extremes

\* A proper non-empty prefix consumed: the next element fits nowhere.
C27_Witness ==
    /\ pc = "build_done"
    /\ index >= 2 /\ index < size(nums)
    /\ At(nums, index) \notin Extremes

\* ---- stack discipline
\* The number of nodes on the longest path from the root to a leaf.
RECURSIVE Height(_)
Height(t) ==
    IF t = Nil THEN 0
    ELSE 1 + (IF Height(leftOf(t)) >= Height(rightOf(t))
              THEN Height(leftOf(t)) ELSE Height(rightOf(t)))

ValidatePcs == {"validate_outer", "validate_inner", "validate_done"}

\* C28: in isValidBST every node is pushed at most once and popped at most
\* once, the nodes are popped in the order of a recursive in-order
\* traversal, the stack never holds more nodes than the height of the tree,
\* and when true is returned the stack is empty and every node of the tree
\* has been visited exactly once.
C28_StackDiscipline ==
    pc \in ValidatePcs =>
        LET io == InOrderPaths(root, <<>>)
            pushed == stack \o visited
        IN  /\ \A i, j \in 1..Len(pushed) : pushed[i] = pushed[j] => i = j
            /\ \A i, j \in 1..Len(visited) : visited[i] = visited[j] => i = j
            /\ Len(visited) <= Len(io)
            /\ visited = SubSeq(io, 1, Len(visited))
            /\ Len(stack) <= Height(root)
            /\ (pc = "validate_done" /\ result = TRUE) =>
                   stack = <<>> /\ visited = io

\* A tree of MaxNodes nodes accepted after every node was visited.
C28_Witness ==
    /\ pc = "validate_done" /\ result = TRUE
    /\ NodeCount(root) = MaxNodes
    /\ Len(visited) = MaxNodes
    /\ Height(root) < MaxNodes

\* ---- the descending search
\* The range [l, r] of the vector is strictly descending.
DescendingRange(a, l, r) ==
    \A i \in l..(r - 1) : At(a, i) > At(a, i + 1)

\* The first index of [l, r] whose element is <= t, r + 1 if there is none.
FirstNotGreater(a, t, l, r) ==
    LET F == {i \in l..r : At(a, i) <= t} IN
    IF F = {} THEN r + 1 ELSE CHOOSE i \in F : \A j \in F : i <= j

\* What binarySearchDescending has to return on a strictly descending
\* range: the first index whose element is <= target when that element is
\* the target, and -1 otherwise.
DescendingExpected(a, t, l, r) ==
    LET f == FirstNotGreater(a, t, l, r) IN
    IF f <= r /\ At(a, f) = t THEN f ELSE NotFound

\* C29: on a strictly descending range [left, right] binarySearchDescending
\* locates the first element <= target (the lower bound under the reversed
\* ordering) and returns its index exactly when that element equals the
\* target; on an empty range (left = right + 1) it returns -1 and
\* dereferences nothing.
C29_DescendingLowerBound ==
    /\ (pc = "mountain_done" /\ Len(calls) >= 4
          /\ DescendingRange(arr, peakIndex + 1, LastIndex(arr))) =>
           /\ lower_bound(arr, peakIndex + 1, size(arr), target, TRUE)
                  = FirstNotGreater(arr, target, peakIndex + 1, LastIndex(arr))
           /\ result = DescendingExpected(arr, target, peakIndex + 1,
                                          LastIndex(arr))
    /\ pc = "mountain_done" =>
           \A l \in 0..size(arr) : \A r \in (l - 1)..LastIndex(arr) :
               DescendingRange(arr, l, r) =>
                   /\ binarySearchDescending(arr, target, l, r)
                          = DescendingExpected(arr, target, l, r)
                   /\ binarySearchReads(arr, target, l, r, TRUE) \subseteq l..r
                   /\ l = r + 1 =>
                          /\ binarySearchDescending(arr, target, l, r) = NotFound
                          /\ binarySearchReads(arr, target, l, r, TRUE) = {}

\* The target found by the descending search in a suffix of two elements or
\* more, past a larger element.
C29_Witness ==
    /\ pc = "mountain_done" /\ Len(calls) >= 4
    /\ DescendingRange(arr, peakIndex + 1, LastIndex(arr))
    /\ LastIndex(arr) > peakIndex + 1
    /\ result > peakIndex + 1

\* ---- the threads of jthread_example
\* The place in out of the first insertion of the text by the thread, 0 if
\* there is none.
PrintedAt(by, text) ==
    LET I == {i \in 1..Len(out) : out[i] = [by |-> by, text |-> text]} IN
    IF I = {} THEN 0 ELSE CHOOSE i \in I : \A j \in I : i <= j

\* C30: under every interleaving of the main thread and the two workers,
\* "All threads finished" is printed only after both workers completed
\* their "finished" line and returned: both jthread objects are joined when
\* the inner scope ends.
C30_AllFinishedAfterWorkers ==
    /\ pc \in {"jthread_finished", "jthread_done"} =>
           \A w \in Workers : worker[w] = "returned"
    /\ PrintedAt(0, "All threads finished\n") > 0 =>
           \A w \in Workers :
               /\ PrintedAt(w, " finished\n") > 0
               /\ PrintedAt(w, " finished\n")
                      < PrintedAt(0, "All threads finished\n")
               /\ PrintedAt(w, " started\n") < PrintedAt(w, " finished\n")

\* "Main thread continues..." printed between the workers' "finished"
\* lines, before "All threads finished".
C30_Witness ==
    /\ pc = "jthread_done"
    /\ PrintedAt(1, " finished\n") < PrintedAt(0, "Main thread continues...\n")
    /\ PrintedAt(0, "Main thread continues...\n") < PrintedAt(2, " finished\n")

\* "Main thread continues..." can also come before both workers'
\* "finished" lines, and after both.
ContinuesFirst ==
    /\ pc = "jthread_done"
    /\ \A w \in Workers :
           PrintedAt(0, "Main thread continues...\n") < PrintedAt(w, " started\n")
ContinuesLast ==
    /\ pc = "jthread_done"
    /\ \A w \in Workers :
           PrintedAt(w, " finished\n") < PrintedAt(0, "Main thread continues...\n")

\* ---- the stepwise runs agree with the recursive definitions
BuildAgrees ==
    pc = "build_done" =>
        /\ result = sortedArrayToBST(nums)
        /\ size(nums) # 0 => index = build(nums, 0, lowest, max).index
ValidateAgrees == pc = "validate_done" => result = isValidBST(root)
SearchAgrees == pc = "search_done" => result = search(nums, target)
MountainAgrees ==
    pc = "mountain_done" => result = findTargetInMountainArray(arr, target)

====
